---- MODULE Spec2Model ----
(***************************************************************************)
(* Excel Consolidator: the Figma field extractor (traverseNode), the       *)
(* consolidation join (consolidateData), the file-format dispatch          *)
(* (parseFile) and the React state of App (handleProcess / handleReset).   *)
(*                                                                         *)
(* A program string is a sequence of one-character strings, so that        *)
(* toLowerCase, trim, startsWith and includes are computed character by    *)
(* character; "" is << >>.  Enumerated literals ('view', 'YES',            *)
(* 'missing_db_mapping') stay TLA+ strings.                                *)
(***************************************************************************)
EXTENDS Integers, Sequences, FiniteSets, TLC

VARIABLES
    document,   \* extractor: response.data.nodes[nodeId].document
    fields,     \* extractor: the array returned by extractFieldsFromFigma
    phase,      \* extractor: "fetched" (document in hand) | "done" (fields returned)
    call,       \* consolidateData: its four arguments
    returned,   \* consolidateData: whether it was called, and { consolidated, errors }
    figmaFileKey, figmaNodeId, figmaApiToken,   \* App: useState('')
    dbMappingFile, computedFieldsFile,          \* App: useState<File | null>(null)
    planType,                                   \* App: useState('')
    loading,                                    \* App: useState(false)
    error,              \* App: useState<string | null>(null); << >> is null
    consolidatedData,   \* App: useState<ConsolidatedField[]>([])
    validationErrors,   \* App: useState<ValidationError[]>([])
    pc,                 \* handleProcess: the await it is suspended at, or "idle"
    run                 \* handleProcess: the values its closure and locals hold

extractVars == <<document, fields, phase>>
consolidateVars == <<call, returned>>
inputVars == <<figmaFileKey, figmaNodeId, figmaApiToken,
               dbMappingFile, computedFieldsFile, planType>>
resultVars == <<loading, error, consolidatedData, validationErrors>>
appVars == <<inputVars, resultVars, pc, run>>
vars == <<extractVars, consolidateVars, appVars>>

----------------------------------------------------------------------------
(* String primitives of the JavaScript runtime used by the source.         *)

LowerOf ==
    [A |-> "a", B |-> "b", C |-> "c", D |-> "d", E |-> "e", F |-> "f", G |-> "g",
     H |-> "h", I |-> "i", J |-> "j", K |-> "k", L |-> "l", M |-> "m", N |-> "n",
     O |-> "o", P |-> "p", Q |-> "q", R |-> "r", S |-> "s", T |-> "t", U |-> "u",
     V |-> "v", W |-> "w", X |-> "x", Y |-> "y", Z |-> "z"]

toLowerCase(s) ==
    [i \in 1..Len(s) |-> IF s[i] \in DOMAIN LowerOf THEN LowerOf[s[i]] ELSE s[i]]

WhiteSpace == {" ", "\t", "\n", "\r"}

RECURSIVE trimStart(_)
trimStart(s) ==
    IF s # << >> /\ Head(s) \in WhiteSpace THEN trimStart(Tail(s)) ELSE s

RECURSIVE trimEnd(_)
trimEnd(s) ==
    IF s # << >> /\ s[Len(s)] \in WhiteSpace
    THEN trimEnd(SubSeq(s, 1, Len(s) - 1))
    ELSE s

trim(s) == trimEnd(trimStart(s))

startsWith(s, p) == Len(s) >= Len(p) /\ SubSeq(s, 1, Len(p)) = p

includes(s, p) ==
    \E i \in 1..(Len(s) - Len(p) + 1) : SubSeq(s, i, i + Len(p) - 1) = p

\* JavaScript truthiness of a string, and the `a || b` idiom on strings.
truthy(s) == s # << >>
orElse(a, b) == IF truthy(a) THEN a ELSE b

----------------------------------------------------------------------------
(* String literals of the source.                                          *)

DefaultSection ==
    <<"D","e","f","a","u","l","t"," ","S","e","c","t","i","o","n">>
DefaultSubsection ==
    <<"D","e","f","a","u","l","t"," ","S","u","b","s","e","c","t","i","o","n">>
kwCreate == <<"c","r","e","a","t","e">>
kwEdit   == <<"e","d","i","t">>
kwDelete == <<"d","e","l","e","t","e">>
kwView   == <<"v","i","e","w">>
Underscore == <<"_">>

----------------------------------------------------------------------------
(* extractFieldsFromFigma: the traversal.  acc is the pair of closure      *)
(* variables (fields, orderCounter) that traverseNode mutates.             *)

SectionTypes == {"FRAME", "SECTION"}
FieldTypes   == {"TEXT", "RECTANGLE", "INSTANCE"}

\* const newSection = section || nodeName;
newSection(section, nodeName) == orElse(section, nodeName)

\* nodeName && !nodeName.startsWith('_') && nodeName.trim()
looksLikeField(nodeName) ==
    /\ truthy(nodeName)
    /\ ~startsWith(nodeName, Underscore)
    /\ truthy(trim(nodeName))

\* faulty variant: the keywords are searched in the name as written
inferScreen_caseSensitive(nodeName, screen) ==
    IF includes(nodeName, kwCreate) THEN "create"
    ELSE IF includes(nodeName, kwEdit) THEN "edit"
    ELSE IF includes(nodeName, kwDelete) THEN "delete"
    ELSE IF includes(nodeName, kwView) THEN "view"
    ELSE screen

\* the if / else-if chain that overrides screenName
inferScreen(nodeName, screen) ==
    LET lower == toLowerCase(nodeName)
    IN  IF includes(lower, kwCreate) THEN "create"
        ELSE IF includes(lower, kwEdit) THEN "edit"
        ELSE IF includes(lower, kwDelete) THEN "delete"
        ELSE IF includes(lower, kwView) THEN "view"
        ELSE screen

\* faulty variant: order: orderCounter++ (the value before the increment)
pushField_postIncrement(acc, section, subsection, nodeName, screen) ==
    [fields |-> Append(acc.fields,
                    [section     |-> orElse(section, DefaultSection),
                     subsection  |-> orElse(subsection, DefaultSubsection),
                     field_name  |-> nodeName,
                     order       |-> acc.orderCounter,
                     screen_name |-> inferScreen(nodeName, screen)]),
     orderCounter |-> acc.orderCounter + 1]

\* fields.push({ ..., order: ++orderCounter, ... })
pushField(acc, section, subsection, nodeName, screen) ==
    [fields |-> Append(acc.fields,
                    [section     |-> orElse(section, DefaultSection),
                     subsection  |-> orElse(subsection, DefaultSubsection),
                     field_name  |-> nodeName,
                     order       |-> acc.orderCounter + 1,
                     screen_name |-> inferScreen(nodeName, screen)]),
     orderCounter |-> acc.orderCounter + 1]

RECURSIVE traverseNode(_, _, _, _, _)
RECURSIVE forEachChild(_, _, _, _, _, _)

\* currentNode.children.forEach(child => traverseNode(child, ...))
forEachChild(children, i, section, subsection, screen, acc) ==
    IF i > Len(children)
    THEN acc
    ELSE forEachChild(children, i + 1, section, subsection, screen,
             traverseNode(children[i], section, subsection, screen, acc))

traverseNode(currentNode, section, subsection, screen, acc) ==
    LET nodeName == currentNode.name
        typed ==
            IF currentNode.type \in SectionTypes
            THEN forEachChild(currentNode.children, 1,
                     newSection(section, nodeName), subsection, screen, acc)
            ELSE IF currentNode.type = "GROUP"
            THEN forEachChild(currentNode.children, 1,
                     section, nodeName, screen, acc)
            ELSE IF currentNode.type \in FieldTypes /\ looksLikeField(nodeName)
            THEN pushField(acc, section, subsection, nodeName, screen)
            ELSE acc
    IN  \* "Continue traversing children": runs for every node type
        forEachChild(currentNode.children, 1, section, subsection, screen, typed)

\* traverseNode(node); return fields;   (defaults: '', '', 'view')
extractFields(node) ==
    traverseNode(node, << >>, << >>, "view",
                 [fields |-> << >>, orderCounter |-> 0]).fields

----------------------------------------------------------------------------
(* consolidateData.  A Map<string, string> is a function on its keys.      *)

EmptyMap == [k \in { } |-> << >>]

\* faulty variant: an existing key keeps its first value
MapSet_keepFirst(map, key, value) ==
    IF key \in DOMAIN map
    THEN map
    ELSE [k \in DOMAIN map \cup {key} |-> IF k = key THEN value ELSE map[k]]

\* Map.prototype.set
MapSet(map, key, value) ==
    [k \in DOMAIN map \cup {key} |-> IF k = key THEN value ELSE map[k]]

\* map.get(key) || ''
getOrEmpty(map, key) ==
    IF key \in DOMAIN map THEN orElse(map[key], << >>) ELSE << >>

\* dbMappings.forEach(mapping => dbMap.set(mapping.field_name.toLowerCase(), mapping.db_column))
RECURSIVE buildDbMap(_, _, _)
buildDbMap(dbMappings, i, dbMap) ==
    IF i > Len(dbMappings)
    THEN dbMap
    ELSE buildDbMap(dbMappings, i + 1,
             MapSet(dbMap, toLowerCase(dbMappings[i].field_name), dbMappings[i].db_column))

\* computedFields.forEach(field => computedMap.set(field.field_name.toLowerCase(), field.formula))
RECURSIVE buildComputedMap(_, _, _)
buildComputedMap(computedFields, i, computedMap) ==
    IF i > Len(computedFields)
    THEN computedMap
    ELSE buildComputedMap(computedFields, i + 1,
             MapSet(computedMap, toLowerCase(computedFields[i].field_name),
                    computedFields[i].formula))

\* faulty variant: the descriptor's name is looked up as written
fieldNameLower_asWritten(figmaField) == figmaField.field_name

\* const fieldNameLower = figmaField.field_name.toLowerCase();
fieldNameLower(figmaField) == toLowerCase(figmaField.field_name)

\* faulty variant: the branches of the conditional swapped
isComputedOf_inverted(formula) == IF truthy(formula) THEN "NO" ELSE "YES"

\* const isComputed = formula ? 'YES' : 'NO';
isComputedOf(formula) == IF truthy(formula) THEN "YES" ELSE "NO"

msgFieldOpen == <<"F","i","e","l","d"," ","\"">>
msgNoDbMapping ==
    <<"\""," ","d","o","e","s"," ","n","o","t"," ","h","a","v","e"," ","a"," ",
      "D","B"," ","m","a","p","p","i","n","g">>
msgComputedOpen ==
    <<"C","o","m","p","u","t","e","d"," ","f","i","e","l","d"," ","\"">>
msgMissingFormula ==
    <<"\""," ","i","s"," ","m","i","s","s","i","n","g"," ","f","o","r","m","u","l","a">>

\* faulty variant: a computed field is excused from the DB-mapping check
validate_skipComputed(errors, figmaField, dbMapping, isComputed, formula) ==
    LET afterDb ==
            IF ~truthy(dbMapping) /\ isComputed = "NO"
            THEN Append(errors,
                     [field_name |-> figmaField.field_name,
                      error_type |-> "missing_db_mapping",
                      message    |-> msgFieldOpen \o figmaField.field_name \o msgNoDbMapping])
            ELSE errors
    IN  IF isComputed = "YES" /\ ~truthy(formula)
        THEN Append(afterDb,
                 [field_name |-> figmaField.field_name,
                  error_type |-> "missing_formula",
                  message    |-> msgComputedOpen \o figmaField.field_name \o msgMissingFormula])
        ELSE afterDb

\* "Validation": the two conditional errors.push calls
validate(errors, figmaField, dbMapping, isComputed, formula) ==
    LET afterDb ==
            IF ~truthy(dbMapping)
            THEN Append(errors,
                     [field_name |-> figmaField.field_name,
                      error_type |-> "missing_db_mapping",
                      message    |-> msgFieldOpen \o figmaField.field_name \o msgNoDbMapping])
            ELSE errors
    IN  IF isComputed = "YES" /\ ~truthy(formula)
        THEN Append(afterDb,
                 [field_name |-> figmaField.field_name,
                  error_type |-> "missing_formula",
                  message    |-> msgComputedOpen \o figmaField.field_name \o msgMissingFormula])
        ELSE afterDb

\* faulty variant: section copied from the subsection
consolidatedField_sectionSlip(figmaField, dbMapping, isComputed, formula, planTypeArg) ==
    [section     |-> figmaField.subsection,
     subsection  |-> figmaField.subsection,
     field_name  |-> figmaField.field_name,
     order       |-> figmaField.order,
     screen_name |-> figmaField.screen_name,
     db_mapping  |-> dbMapping,
     is_computed |-> isComputed,
     formula     |-> formula,
     plan_type   |-> planTypeArg]

\* the object pushed onto consolidated
consolidatedField(figmaField, dbMapping, isComputed, formula, planTypeArg) ==
    [section     |-> figmaField.section,
     subsection  |-> figmaField.subsection,
     field_name  |-> figmaField.field_name,
     order       |-> figmaField.order,
     screen_name |-> figmaField.screen_name,
     db_mapping  |-> dbMapping,
     is_computed |-> isComputed,
     formula     |-> formula,
     plan_type   |-> planTypeArg]

\* figmaFields.forEach(figmaField => { ... })
RECURSIVE forEachFigmaField(_, _, _, _, _, _)
forEachFigmaField(figmaFields, i, dbMap, computedMap, planTypeArg, out) ==
    IF i > Len(figmaFields)
    THEN out
    ELSE LET figmaField == figmaFields[i]
             dbMapping  == getOrEmpty(dbMap, fieldNameLower(figmaField))
             formula    == getOrEmpty(computedMap, fieldNameLower(figmaField))
             isComputed == isComputedOf(formula)
         IN  forEachFigmaField(figmaFields, i + 1, dbMap, computedMap, planTypeArg,
                 [consolidated |->
                      Append(out.consolidated,
                             consolidatedField(figmaField, dbMapping, isComputed,
                                               formula, planTypeArg)),
                  errors |->
                      validate(out.errors, figmaField, dbMapping, isComputed, formula)])

consolidateData(figmaFields, dbMappings, computedFields, planTypeArg) ==
    forEachFigmaField(figmaFields, 1,
        buildDbMap(dbMappings, 1, EmptyMap),
        buildComputedMap(computedFields, 1, EmptyMap),
        planTypeArg,
        [consolidated |-> << >>, errors |-> << >>])

----------------------------------------------------------------------------
(* fileParserService: parseFile's dispatch and the two extract functions.  *)
(* A parsed row is a function from header to cell text.                    *)

\* file.name.split('.').pop()
RECURSIVE lastSegment(_, _)
lastSegment(name, i) ==
    IF i = 0 THEN name
    ELSE IF name[i] = "." THEN SubSeq(name, i + 1, Len(name))
    ELSE lastSegment(name, i - 1)

fileExtension(file) == toLowerCase(lastSegment(file.name, Len(file.name)))

extXlsx == <<"x","l","s","x">>
extXls  == <<"x","l","s">>
extCsv  == <<"c","s","v">>
extPdf  == <<"p","d","f">>
extDoc  == <<"d","o","c">>
extDocx == <<"d","o","c","x">>

\* the switch of parseFile: which parser the file goes to
parserOf(file) ==
    LET ext == fileExtension(file)
    IN  IF ext \in {extXlsx, extXls} THEN "parseExcel"
        ELSE IF ext = extCsv THEN "parseCSV"
        ELSE IF ext = extPdf THEN "parsePDF"
        ELSE IF ext \in {extDoc, extDocx} THEN "parseWord"
        ELSE "unsupported"

\* faulty variant: the PDF and Word placeholders hand back the file's rows
parsedRows_placeholdersParse(file) == file.rows

\* what the parser resolves with once the file is read: the rows of a
\* spreadsheet or CSV; resolve([]) for the PDF and Word placeholders
parsedRows(file) ==
    IF parserOf(file) \in {"parseExcel", "parseCSV"} THEN file.rows ELSE << >>

\* row.a || row.b || ... || ''
RECURSIVE firstAlias(_, _, _)
firstAlias(row, aliases, i) ==
    IF i > Len(aliases) THEN << >>
    ELSE IF aliases[i] \in DOMAIN row /\ truthy(row[aliases[i]]) THEN row[aliases[i]]
    ELSE firstAlias(row, aliases, i + 1)

fieldNameAliases == <<"field_name", "Field Name", "fieldName", "name">>
dbColumnAliases  == <<"db_column", "DB Column", "dbColumn", "mapping", "column">>
formulaAliases   == <<"formula", "Formula", "logic", "Logic", "computation">>

extractDBMappings(data) ==
    SelectSeq([i \in 1..Len(data) |->
                  [field_name |-> trim(firstAlias(data[i], fieldNameAliases, 1)),
                   db_column  |-> trim(firstAlias(data[i], dbColumnAliases, 1))]],
              LAMBDA item : truthy(item.field_name) /\ truthy(item.db_column))

extractComputedFields(data) ==
    SelectSeq([i \in 1..Len(data) |->
                  [field_name |-> trim(firstAlias(data[i], fieldNameAliases, 1)),
                   formula    |-> trim(firstAlias(data[i], formulaAliases, 1))]],
              LAMBDA item : truthy(item.field_name) /\ truthy(item.formula))

----------------------------------------------------------------------------
(* Documents the fetch can return: every tree of at most MaxNodes nodes    *)
(* whose nodes carry one of the (type, name) labels below.  Any node may   *)
(* have children (FigmaNode.children is optional on every type).           *)

MaxNodes == 3

nAccountSettings ==
    <<"A","c","c","o","u","n","t"," ","S","e","t","t","i","n","g","s">>
nPlan       == <<"P","l","a","n">>
nGrp        == <<"G","r","p">>
nEmail      == <<"E","m","a","i","l">>
nHidden     == <<"_","i","d">>
nPadHidden  == <<" ","_","i","d">>
nBlank      == <<" ">>
nDeleteConfirmation ==
    <<"D","e","l","e","t","e"," ","C","o","n","f","i","r","m","a","t","i","o","n">>
nViewEdit   == <<"V","i","e","w"," ","E","d","i","t">>
nEditCreate == <<"E","d","i","t"," ","C","r","e","a","t","e">>
nIcon       == <<"i","c","o","n">>

NodeLabels ==
    { [type |-> "FRAME",     name |-> nAccountSettings],
      [type |-> "FRAME",     name |-> << >>],
      [type |-> "SECTION",   name |-> nPlan],
      [type |-> "GROUP",     name |-> nGrp],
      [type |-> "TEXT",      name |-> nEmail],
      [type |-> "TEXT",      name |-> nHidden],
      [type |-> "TEXT",      name |-> nPadHidden],
      [type |-> "TEXT",      name |-> << >>],
      [type |-> "TEXT",      name |-> nBlank],
      [type |-> "INSTANCE",  name |-> nDeleteConfirmation],
      [type |-> "RECTANGLE", name |-> nViewEdit],
      [type |-> "RECTANGLE", name |-> nEditCreate],
      [type |-> "VECTOR",    name |-> nIcon] }

(* Arguments of consolidateData: descriptors as the extractor shapes them   *)
(* (order = position), mapping tables as extractDBMappings and             *)
(* extractComputedFields leave them (trimmed, no empty member).            *)

MaxFields == 2
MaxMappings == 2

nEmailLower == <<"e","m","a","i","l">>
nEmailUpper == <<"E","M","A","I","L">>
nPadEmail   == <<" ","E","m","a","i","l"," ">>
nTax        == <<"T","a","x">>
colUsersEmail == <<"u","s","e","r","s",".","e","m","a","i","l">>
colAcctMail   == <<"a","c","c","t",".","m","a","i","l">>
colAudit      == <<"a","u","d","i","t",".","d","e","l">>
fmlLower      == <<"l","o","w","e","r","(","r","a","w",")">>
fmlSum        == <<"a","+","b">>
planMedical   == <<"M","e","d","i","c","a","l">>
planDental    == <<"D","e","n","t","a","l">>

FieldPool ==
    { [section |-> nAccountSettings, subsection |-> DefaultSubsection,
       field_name |-> nEmail, screen_name |-> "view"],
      [section |-> DefaultSection, subsection |-> nGrp,
       field_name |-> nEmailLower, screen_name |-> "view"],
      [section |-> nPlan, subsection |-> DefaultSubsection,
       field_name |-> nPadEmail, screen_name |-> "view"],
      [section |-> nAccountSettings, subsection |-> DefaultSubsection,
       field_name |-> nDeleteConfirmation, screen_name |-> "delete"],
      [section |-> DefaultSection, subsection |-> DefaultSubsection,
       field_name |-> nViewEdit, screen_name |-> "edit"] }

DBMappingPool ==
    { [field_name |-> nEmail,              db_column |-> colUsersEmail],
      [field_name |-> nEmailLower,         db_column |-> colAcctMail],
      [field_name |-> nDeleteConfirmation, db_column |-> colAudit] }

ComputedFieldPool ==
    { [field_name |-> nEmailUpper, formula |-> fmlLower],
      [field_name |-> nEmail,      formula |-> fmlSum] }

PlanTypes == { planMedical, planDental }

SeqsUpTo(S, n) == UNION { [1..k -> S] : k \in 0..n }

\* FigmaField[] with order: i at position i
withOrder(picked) ==
    [i \in 1..Len(picked) |->
        [section     |-> picked[i].section,
         subsection  |-> picked[i].subsection,
         field_name  |-> picked[i].field_name,
         order       |-> i,
         screen_name |-> picked[i].screen_name]]

\* The ordered tree shapes of n nodes, numbered in pre-order: parent[1] = 0
\* and the parent of node i is node i - 1 or one of its ancestors.
RECURSIVE AncestorsOrSelf(_, _)
AncestorsOrSelf(parent, i) ==
    IF i = 0 THEN { } ELSE {i} \cup AncestorsOrSelf(parent, parent[i])

Shapes(n) ==
    { parent \in [1..n -> 0..(n - 1)] :
          /\ parent[1] = 0
          /\ \A i \in 2..n : parent[i] \in AncestorsOrSelf(parent, i - 1) }

RECURSIVE Ascending(_)
Ascending(S) ==
    IF S = { }
    THEN << >>
    ELSE LET m == CHOOSE x \in S : \A y \in S : x <= y
         IN  <<m>> \o Ascending(S \ {m})

\* the FigmaNode rooted at node i of a labelled shape
RECURSIVE BuildNode(_, _, _)
BuildNode(parent, label, i) ==
    LET kids == Ascending({ c \in DOMAIN parent : parent[c] = i })
    IN  [type     |-> label[i].type,
         name     |-> label[i].name,
         children |-> [k \in 1..Len(kids) |-> BuildNode(parent, label, kids[k])]]

----------------------------------------------------------------------------
(* The values the variables of one specification hold under the others.   *)

NoDocument == [type |-> "DOCUMENT", name |-> << >>, children |-> << >>]

NoCall ==
    [figmaFields |-> << >>, dbMappings |-> << >>, computedFields |-> << >>,
     planType |-> << >>]
NotReturned == [called |-> FALSE, consolidated |-> << >>, errors |-> << >>]

----------------------------------------------------------------------------
(* Spec: the App component.  handleProcess is an async function: each      *)
(* action below runs it from one suspension point to the next (React       *)
(* applies the state updates of one such stretch together).  The Process   *)
(* and Reset buttons are disabled while loading; the inputs are not.       *)

NullFile == [name |-> << >>, rows |-> << >>]   \* useState<File | null>: null

fileKeyText == <<"a","b","c","1","2","3">>
nodeIdText  == <<"1",":","2">>
tokenText   == <<"f","i","g","d","_","x">>

dbCsv ==
    [name |-> <<"m","a","p",".","c","s","v">>,
     rows |-> << [field_name |-> <<"E","m","a","i","l"," ">>, db_column |-> colUsersEmail],
                 [field_name |-> nTax, db_column |-> << >>] >>]
dbPdf ==
    [name |-> <<"m","a","p",".","P","D","F">>,
     rows |-> << [field_name |-> nEmail, db_column |-> colUsersEmail] >>]
dbDoc ==
    [name |-> <<"m","a","p",".","d","o","c">>,
     rows |-> << [field_name |-> nEmail, db_column |-> colUsersEmail] >>]
dbJson ==
    [name |-> <<"m","a","p",".","j","s","o","n">>,
     rows |-> << [field_name |-> nEmail, db_column |-> colUsersEmail] >>]
calcXlsx ==
    [name |-> <<"c","a","l","c",".","x","l","s","x">>,
     rows |-> << ("Field Name" :> nEmailUpper) @@ ("Formula" :> fmlLower) >>]
calcDocx ==
    [name |-> <<"c","a","l","c",".","d","o","c","x">>,
     rows |-> << ("Field Name" :> nEmailUpper) @@ ("Formula" :> fmlLower) >>]
calcNoExt ==
    [name |-> <<"c","a","l","c">>,
     rows |-> << >>]

DbMappingFiles == { dbCsv, dbPdf, dbDoc, dbJson }
ComputedFieldsFiles == { calcXlsx, calcDocx, calcNoExt }

leaf(type, name) == [type |-> type, name |-> name, children |-> << >>]
docAccount ==
    [type |-> "FRAME", name |-> nAccountSettings,
     children |-> << leaf("TEXT", nEmail), leaf("INSTANCE", nDeleteConfirmation) >>]
docTax == leaf("TEXT", nTax)
docIcons == [type |-> "GROUP", name |-> nGrp, children |-> << leaf("VECTOR", nIcon) >>]

\* response.data.nodes[nodeId]?.document, when the request succeeds
FetchedDocuments == { docAccount, docTax, docIcons }
\* error.message of a failed request
TransportFailures == { "Network Error", "Request failed with status code 403" }

NoError == << >>
msgNeedFigma    == <<"Please provide Figma file key, node ID, and API token">>
msgNeedDbFile   == <<"Please upload DB mapping file">>
msgNeedComputed == <<"Please upload computed fields file">>
msgNeedPlan     == <<"Please enter plan type">>
msgFetchFailed(cause) == <<"Failed to fetch Figma data: ", cause>>
msgUnsupported(file)  == <<"Unsupported file type: ", fileExtension(file)>>
\* reader.onerror of parseExcel; Papa's error object is no Error instance
msgReadFailed(file) ==
    IF parserOf(file) = "parseExcel"
    THEN <<"Failed to read Excel file">>
    ELSE <<"An error occurred">>

NoRun ==
    [dbMappingFile |-> NullFile, computedFieldsFile |-> NullFile, planType |-> << >>,
     figmaFields |-> << >>, dbMappings |-> << >>]

AppAtRest ==
    /\ figmaFileKey = << >> /\ figmaNodeId = << >> /\ figmaApiToken = << >>
    /\ dbMappingFile = NullFile /\ computedFieldsFile = NullFile
    /\ planType = << >>
    /\ loading = FALSE
    /\ error = NoError
    /\ consolidatedData = << >>
    /\ validationErrors = << >>
    /\ pc = "idle"
    /\ run = NoRun

Init ==
    /\ AppAtRest
    /\ document = NoDocument /\ fields = << >> /\ phase = "done"
    /\ call = NoCall /\ returned = NotReturned

\* onChange of the six inputs
SetFigmaFileKey ==
    /\ \E v \in {<< >>, fileKeyText} : figmaFileKey' = v
    /\ UNCHANGED <<figmaNodeId, figmaApiToken, dbMappingFile, computedFieldsFile,
                   planType, resultVars, pc, run, extractVars, consolidateVars>>

SetFigmaNodeId ==
    /\ \E v \in {<< >>, nodeIdText} : figmaNodeId' = v
    /\ UNCHANGED <<figmaFileKey, figmaApiToken, dbMappingFile, computedFieldsFile,
                   planType, resultVars, pc, run, extractVars, consolidateVars>>

SetFigmaApiToken ==
    /\ \E v \in {<< >>, tokenText} : figmaApiToken' = v
    /\ UNCHANGED <<figmaFileKey, figmaNodeId, dbMappingFile, computedFieldsFile,
                   planType, resultVars, pc, run, extractVars, consolidateVars>>

SetDbMappingFile ==
    /\ \E f \in DbMappingFiles \cup {NullFile} : dbMappingFile' = f
    /\ UNCHANGED <<figmaFileKey, figmaNodeId, figmaApiToken, computedFieldsFile,
                   planType, resultVars, pc, run, extractVars, consolidateVars>>

SetComputedFieldsFile ==
    /\ \E f \in ComputedFieldsFiles \cup {NullFile} : computedFieldsFile' = f
    /\ UNCHANGED <<figmaFileKey, figmaNodeId, figmaApiToken, dbMappingFile,
                   planType, resultVars, pc, run, extractVars, consolidateVars>>

SetPlanType ==
    /\ \E v \in {<< >>, planMedical} : planType' = v
    /\ UNCHANGED <<figmaFileKey, figmaNodeId, figmaApiToken, dbMappingFile,
                   computedFieldsFile, resultVars, pc, run, extractVars, consolidateVars>>

\* the catch and finally blocks: setError(err.message); setLoading(false)
fail(message) ==
    /\ error' = message
    /\ loading' = FALSE
    /\ pc' = "idle"
    /\ run' = NoRun

\* faulty variant: the plan-type check is left out
inputError_noPlanCheck ==
    IF ~truthy(figmaFileKey) \/ ~truthy(figmaNodeId) \/ ~truthy(figmaApiToken)
    THEN msgNeedFigma
    ELSE IF dbMappingFile = NullFile THEN msgNeedDbFile
    ELSE IF computedFieldsFile = NullFile THEN msgNeedComputed
    ELSE NoError

\* the first throw of "Validate inputs", or << >> when all four checks pass
inputError ==
    IF ~truthy(figmaFileKey) \/ ~truthy(figmaNodeId) \/ ~truthy(figmaApiToken)
    THEN msgNeedFigma
    ELSE IF dbMappingFile = NullFile THEN msgNeedDbFile
    ELSE IF computedFieldsFile = NullFile THEN msgNeedComputed
    ELSE IF ~truthy(planType) THEN msgNeedPlan
    ELSE NoError

\* click on "Generate": lines 36-61, up to the await of the Figma request
HandleProcess ==
    /\ ~loading
    /\ pc = "idle"
    /\ validationErrors' = << >>
    /\ IF inputError # NoError
       THEN fail(inputError)
       ELSE /\ loading' = TRUE
            /\ error' = NoError
            /\ pc' = "extractFieldsFromFigma"
            /\ run' = [NoRun EXCEPT !.dbMappingFile = dbMappingFile,
                                    !.computedFieldsFile = computedFieldsFile,
                                    !.planType = planType]
    /\ UNCHANGED <<inputVars, consolidatedData, extractVars, consolidateVars>>

\* the request resolves: lines 116-188, then parseFile(dbMappingFile) dispatches
FigmaResponds ==
    /\ pc = "extractFieldsFromFigma"
    /\ \E node \in FetchedDocuments :
           IF parserOf(run.dbMappingFile) = "unsupported"
           THEN fail(msgUnsupported(run.dbMappingFile))
           ELSE /\ pc' = "parseDbMappingFile"
                /\ run' = [run EXCEPT !.figmaFields = extractFields(node)]
                /\ UNCHANGED <<loading, error>>
    /\ UNCHANGED <<inputVars, consolidatedData, validationErrors,
                   extractVars, consolidateVars>>

\* nodes[nodeId] is absent, or the request fails: the catch of line 189
FigmaFails ==
    /\ pc = "extractFieldsFromFigma"
    /\ \E cause \in TransportFailures \cup {"Node not found in Figma file"} :
           fail(msgFetchFailed(cause))
    /\ UNCHANGED <<inputVars, consolidatedData, validationErrors,
                   extractVars, consolidateVars>>

\* the DB mapping file is read: extractDBMappings, then
\* parseFile(computedFieldsFile) dispatches
DbMappingFileParsed ==
    /\ pc = "parseDbMappingFile"
    /\ IF parserOf(run.computedFieldsFile) = "unsupported"
       THEN fail(msgUnsupported(run.computedFieldsFile))
       ELSE /\ pc' = "parseComputedFieldsFile"
            /\ run' = [run EXCEPT
                          !.dbMappings = extractDBMappings(parsedRows(run.dbMappingFile))]
            /\ UNCHANGED <<loading, error>>
    /\ UNCHANGED <<inputVars, consolidatedData, validationErrors,
                   extractVars, consolidateVars>>

\* the computed fields file is read: extractComputedFields, consolidateData,
\* setConsolidatedData, setValidationErrors, finally setLoading(false)
ComputedFieldsFileParsed ==
    /\ pc = "parseComputedFieldsFile"
    /\ LET r == consolidateData(run.figmaFields, run.dbMappings,
                    extractComputedFields(parsedRows(run.computedFieldsFile)),
                    run.planType)
       IN  /\ consolidatedData' = r.consolidated
           /\ validationErrors' = r.errors
    /\ loading' = FALSE
    /\ pc' = "idle"
    /\ run' = NoRun
    /\ UNCHANGED <<inputVars, error, extractVars, consolidateVars>>

\* reader.onerror / Papa's error callback of a spreadsheet or CSV file
FileReadFails ==
    /\ \/ /\ pc = "parseDbMappingFile"
          /\ parserOf(run.dbMappingFile) \in {"parseExcel", "parseCSV"}
          /\ fail(msgReadFailed(run.dbMappingFile))
       \/ /\ pc = "parseComputedFieldsFile"
          /\ parserOf(run.computedFieldsFile) \in {"parseExcel", "parseCSV"}
          /\ fail(msgReadFailed(run.computedFieldsFile))
    /\ UNCHANGED <<inputVars, consolidatedData, validationErrors,
                   extractVars, consolidateVars>>

\* click on "Reset"
HandleReset ==
    /\ ~loading
    /\ figmaFileKey' = << >> /\ figmaNodeId' = << >> /\ figmaApiToken' = << >>
    /\ dbMappingFile' = NullFile /\ computedFieldsFile' = NullFile
    /\ planType' = << >>
    /\ consolidatedData' = << >>
    /\ validationErrors' = << >>
    /\ error' = NoError
    /\ UNCHANGED <<loading, pc, run, extractVars, consolidateVars>>

Next ==
    \/ SetFigmaFileKey \/ SetFigmaNodeId \/ SetFigmaApiToken
    \/ SetDbMappingFile \/ SetComputedFieldsFile \/ SetPlanType
    \/ HandleProcess
    \/ FigmaResponds \/ FigmaFails
    \/ DbMappingFileParsed \/ ComputedFieldsFileParsed \/ FileReadFails
    \/ HandleReset

Spec == Init /\ [][Next]_vars

----------------------------------------------------------------------------
(* SpecExtract: extractFieldsFromFigma applied to every document, and      *)
(* applied again to a node of the same file (another nodeId).              *)

InitExtract ==
    /\ AppAtRest
    /\ call = NoCall
    /\ returned = NotReturned
    /\ \E n \in 1..MaxNodes :
           \E parent \in Shapes(n), label \in [1..n -> NodeLabels] :
               document = BuildNode(parent, label, 1)
    /\ fields = << >>
    /\ phase = "fetched"

\* lines 121-188: a fresh fields / orderCounter pair, the traversal, the return
ExtractFieldsFromFigma ==
    /\ phase = "fetched"
    /\ fields' = extractFields(document)
    /\ phase' = "done"
    /\ UNCHANGED <<document, consolidateVars, appVars>>

\* a later call with the id of a node below the previous one
FetchNode ==
    /\ phase = "done"
    /\ \E i \in 1..Len(document.children) : document' = document.children[i]
    /\ phase' = "fetched"
    /\ UNCHANGED <<fields, consolidateVars, appVars>>

NextExtract == ExtractFieldsFromFigma \/ FetchNode

SpecExtract == InitExtract /\ [][NextExtract]_vars

----------------------------------------------------------------------------
(* SpecConsolidate: consolidateData applied to every argument tuple.       *)

InitConsolidate ==
    /\ AppAtRest
    /\ document = NoDocument
    /\ fields = << >>
    /\ phase = "done"
    /\ \E picked \in SeqsUpTo(FieldPool, MaxFields),
          dbMappings \in SeqsUpTo(DBMappingPool, MaxMappings),
          computedFields \in SeqsUpTo(ComputedFieldPool, MaxMappings),
          planTypeArg \in PlanTypes :
            call = [figmaFields    |-> withOrder(picked),
                    dbMappings     |-> dbMappings,
                    computedFields |-> computedFields,
                    planType       |-> planTypeArg]
    /\ returned = NotReturned

ConsolidateData ==
    /\ ~returned.called
    /\ LET r == consolidateData(call.figmaFields, call.dbMappings,
                                call.computedFields, call.planType)
       IN  returned' = [called |-> TRUE, consolidated |-> r.consolidated,
                        errors |-> r.errors]
    /\ UNCHANGED <<call, extractVars, appVars>>

NextConsolidate == ConsolidateData

SpecConsolidate == InitConsolidate /\ [][NextConsolidate]_vars

----------------------------------------------------------------------------
(* What the claims say of a document, computed from the tree alone.        *)

IsLeafContent(node) == node.type \in FieldTypes

\* name non-empty after trimming and, trimmed, not underscore-prefixed
Qualifies(node) ==
    /\ IsLeafContent(node)
    /\ trim(node.name) # << >>
    /\ ~startsWith(trim(node.name), Underscore)

RECURSIVE SumOver(_, _, _)
RECURSIVE CountQualifying(_)

SumOver(children, i, total) ==
    IF i > Len(children)
    THEN total
    ELSE SumOver(children, i + 1, total + CountQualifying(children[i]))

CountQualifying(node) ==
    SumOver(node.children, 1, IF Qualifies(node) THEN 1 ELSE 0)

\* (field_name, section) of every leaf-content node, the section being the
\* name of the outermost non-empty-named FRAME/SECTION above it
RECURSIVE PathSections(_, _)
PathSections(node, outer) ==
    LET below == IF node.type \in SectionTypes THEN orElse(outer, node.name) ELSE outer
    IN  (IF IsLeafContent(node)
         THEN { [field_name |-> node.name, section |-> orElse(outer, DefaultSection)] }
         ELSE { })
        \cup UNION { PathSections(node.children[i], below) : i \in 1..Len(node.children) }

----------------------------------------------------------------------------
(* C1: the output has exactly one descriptor per qualifying leaf-content   *)
(* node; visiting the children of a FRAME/SECTION/GROUP never duplicates   *)
(* an emission.                                                            *)
C1_OnePerQualifyingLeaf ==
    phase = "done" => Len(fields) = CountQualifying(document)

(* C2: every emitted descriptor carries the section of the outermost       *)
(* non-empty-named container on its leaf's path, "Default Section" only    *)
(* when there is none; a leaf directly under a root container is emitted   *)
(* only with that container's name and "Default Subsection".               *)
C2_SectionIsOutermostContainer ==
    phase = "done" =>
        /\ \A i \in 1..Len(fields) :
               [field_name |-> fields[i].field_name, section |-> fields[i].section]
                   \in PathSections(document, << >>)
        /\ (/\ document.type \in SectionTypes
            /\ document.name = nAccountSettings
            /\ \A k \in 1..Len(document.children) :
                   /\ IsLeafContent(document.children[k])
                   /\ document.children[k].children = << >>)
           => \A i \in 1..Len(fields) :
                  /\ fields[i].section = nAccountSettings
                  /\ fields[i].subsection = DefaultSubsection

(* C7: the order values of the output are 1, 2, ..., N in emission order;  *)
(* the counter is never reset per section or subsection, and each          *)
(* extraction starts again at 1.                                           *)
C7_OrderIsEmissionIndex ==
    phase = "done" => \A i \in 1..Len(fields) : fields[i].order = i

\* an extraction that emits at least three descriptors and changes
\* section between two consecutive ones
C7_Witness ==
    /\ phase = "done"
    /\ Len(fields) >= 3
    /\ \E i \in 1..(Len(fields) - 1) : fields[i].section # fields[i + 1].section

(* C8: no descriptor of the output has a field_name whose trimmed form is  *)
(* empty or starts with an underscore.                                     *)
C8_NoHiddenOrEmptyNames ==
    phase = "done" =>
        \A i \in 1..Len(fields) :
            /\ trim(fields[i].field_name) # << >>
            /\ ~startsWith(trim(fields[i].field_name), Underscore)

----------------------------------------------------------------------------
(* What the claims say of a consolidateData call, from its arguments.      *)

foldsTo(a, b) == toLowerCase(a) = toLowerCase(b)
foldsAndTrimsTo(a, b) == trim(toLowerCase(a)) = trim(toLowerCase(b))

\* the descriptor's column lookup is empty: no mapping has its case-folded name
ColumnLookupEmpty(figmaField) ==
    \A k \in 1..Len(call.dbMappings) :
        ~foldsTo(call.dbMappings[k].field_name, figmaField.field_name)

NoMissingDbMappingFor(figmaField) ==
    \A e \in 1..Len(returned.errors) :
        ~(/\ returned.errors[e].error_type = "missing_db_mapping"
          /\ returned.errors[e].field_name = figmaField.field_name)

(* C3: the join key is the field name case-folded and trimmed: a           *)
(* descriptor whose name equals a mapping's name after lower-casing and    *)
(* trimming both resolves that mapping's value and gets no                 *)
(* missing_db_mapping issue; likewise for formulas.                        *)
C3_JoinKeyFoldedAndTrimmed ==
    returned.called =>
        \A i \in 1..Len(call.figmaFields) :
            /\ \A k \in 1..Len(call.dbMappings) :
                   foldsAndTrimsTo(call.figmaFields[i].field_name,
                                   call.dbMappings[k].field_name)
                   => /\ \E j \in 1..Len(call.dbMappings) :
                             /\ foldsAndTrimsTo(call.figmaFields[i].field_name,
                                                call.dbMappings[j].field_name)
                             /\ returned.consolidated[i].db_mapping
                                    = call.dbMappings[j].db_column
                      /\ NoMissingDbMappingFor(call.figmaFields[i])
            /\ \A k \in 1..Len(call.computedFields) :
                   foldsAndTrimsTo(call.figmaFields[i].field_name,
                                   call.computedFields[k].field_name)
                   => \E j \in 1..Len(call.computedFields) :
                          /\ foldsAndTrimsTo(call.figmaFields[i].field_name,
                                             call.computedFields[j].field_name)
                          /\ returned.consolidated[i].formula
                                 = call.computedFields[j].formula

(* C5: one record per descriptor, in the same order; record i carries      *)
(* section, subsection, field_name, order and screen of descriptor i and   *)
(* the supplied plan type; no descriptors give no records and no issues.   *)
C5_OneRecordPerDescriptor ==
    returned.called =>
        /\ Len(returned.consolidated) = Len(call.figmaFields)
        /\ \A i \in 1..Len(call.figmaFields) :
               /\ returned.consolidated[i].section = call.figmaFields[i].section
               /\ returned.consolidated[i].subsection = call.figmaFields[i].subsection
               /\ returned.consolidated[i].field_name = call.figmaFields[i].field_name
               /\ returned.consolidated[i].order = call.figmaFields[i].order
               /\ returned.consolidated[i].screen_name = call.figmaFields[i].screen_name
               /\ returned.consolidated[i].plan_type = call.planType
        /\ call.figmaFields = << >> =>
               returned.consolidated = << >> /\ returned.errors = << >>

\* two descriptors that differ in section, joined against non-empty tables
C5_Witness ==
    /\ returned.called
    /\ Len(call.figmaFields) >= 2
    /\ call.figmaFields[1].section # call.figmaFields[2].section
    /\ call.figmaFields[1].section # call.figmaFields[1].subsection
    /\ call.dbMappings # << >>
    /\ call.computedFields # << >>

(* C6: the issue list is, in descriptor order, one missing_db_mapping      *)
(* issue per descriptor whose column lookup is empty (its record has an    *)
(* empty db_mapping) and none for any other, computed or not.              *)
C6_IssuesAreTheUnmappedDescriptors ==
    returned.called =>
        LET unmapped == Ascending({ i \in 1..Len(call.figmaFields) :
                                        ColumnLookupEmpty(call.figmaFields[i]) })
        IN  /\ Len(returned.errors) = Len(unmapped)
            /\ \A k \in 1..Len(unmapped) :
                   /\ returned.errors[k].error_type = "missing_db_mapping"
                   /\ returned.errors[k].field_name
                          = call.figmaFields[unmapped[k]].field_name
                   /\ returned.consolidated[unmapped[k]].db_mapping = << >>
            /\ \A i \in 1..Len(call.figmaFields) :
                   ~ColumnLookupEmpty(call.figmaFields[i])
                   => returned.consolidated[i].db_mapping # << >>

\* an unmapped computed descriptor next to a mapped one
C6_Witness ==
    /\ returned.called
    /\ \E i, j \in 1..Len(call.figmaFields) :
           /\ ColumnLookupEmpty(call.figmaFields[i])
           /\ returned.consolidated[i].is_computed = "YES"
           /\ ~ColumnLookupEmpty(call.figmaFields[j])
    /\ Len(returned.errors) = 1

(* C9: matching is case-insensitive: a descriptor whose name differs from  *)
(* a mapping's name only in letter case gets that mapping's db_column and  *)
(* no missing_db_mapping issue; the same holds for the formula lookup.     *)
C9_CaseInsensitiveMatch ==
    returned.called =>
        \A i \in 1..Len(call.figmaFields) :
            /\ \A k \in 1..Len(call.dbMappings) :
                   foldsTo(call.figmaFields[i].field_name, call.dbMappings[k].field_name)
                   => /\ \E j \in 1..Len(call.dbMappings) :
                             /\ foldsTo(call.figmaFields[i].field_name,
                                        call.dbMappings[j].field_name)
                             /\ returned.consolidated[i].db_mapping
                                    = call.dbMappings[j].db_column
                      /\ NoMissingDbMappingFor(call.figmaFields[i])
            /\ \A k \in 1..Len(call.computedFields) :
                   foldsTo(call.figmaFields[i].field_name,
                           call.computedFields[k].field_name)
                   => \E j \in 1..Len(call.computedFields) :
                          /\ foldsTo(call.figmaFields[i].field_name,
                                     call.computedFields[j].field_name)
                          /\ returned.consolidated[i].formula
                                 = call.computedFields[j].formula

\* mapping "Email" alone, descriptor "email": resolved across the case difference
C9_Witness ==
    /\ returned.called
    /\ Len(call.dbMappings) = 1
    /\ call.dbMappings[1].field_name = nEmail
    /\ \E i \in 1..Len(call.figmaFields) :
           /\ call.figmaFields[i].field_name = nEmailLower
           /\ returned.consolidated[i].db_mapping = colUsersEmail
    /\ returned.errors = << >>

(* C10: is_computed is YES exactly when the record's formula is non-empty, *)
(* and no issue of kind missing_formula is ever produced.                  *)
C10_ComputedIffFormula ==
    returned.called =>
        /\ \A i \in 1..Len(returned.consolidated) :
               (returned.consolidated[i].is_computed = "YES")
                   <=> (returned.consolidated[i].formula # << >>)
        /\ \A e \in 1..Len(returned.errors) :
               returned.errors[e].error_type # "missing_formula"

\* a computed record and a plain one in the same result
C10_Witness ==
    /\ returned.called
    /\ \E i, j \in 1..Len(returned.consolidated) :
           /\ returned.consolidated[i].is_computed = "YES"
           /\ returned.consolidated[i].formula # << >>
           /\ returned.consolidated[j].is_computed = "NO"

----------------------------------------------------------------------------
(* What the claims say of the App's state.                                 *)

\* the run just ended with an input-validation, fetch or unsupported-format error
EndedWithFatalError ==
    /\ pc = "idle"
    /\ error # NoError
    /\ \/ error \in {msgNeedFigma, msgNeedDbFile, msgNeedComputed, msgNeedPlan}
       \/ error[1] = "Failed to fetch Figma data: "
       \/ error[1] = "Unsupported file type: "

(* C4: after a run that ends with an input-validation, fetch or            *)
(* unsupported-format error the stored consolidated result set is empty    *)
(* while the error message is set, whatever runs came before.              *)
C4_NoOutputAfterFatalError ==
    EndedWithFatalError => consolidatedData = << >>

InputValidationMessages == {msgNeedFigma, msgNeedDbFile, msgNeedComputed, msgNeedPlan}

\* one of the six required inputs is missing
RequiredInputMissing ==
    \/ figmaFileKey = << >> \/ figmaNodeId = << >> \/ figmaApiToken = << >>
    \/ dbMappingFile = NullFile \/ computedFieldsFile = NullFile
    \/ planType = << >>

(* C11: a click on Generate with a required input missing ends the run at  *)
(* once with an input-validation error: the handler is suspended at no     *)
(* await (no fetch, no file parsing), holds no locals, and the consolidated*)
(* data is not written (no consolidation).                                 *)
C11_ValidationBeforeProcessing ==
    [][(pc = "idle" /\ RequiredInputMissing /\ HandleProcess)
          => /\ pc' = "idle"
             /\ loading' = FALSE
             /\ error' \in InputValidationMessages
             /\ run' = NoRun
             /\ consolidatedData' = consolidatedData]_vars

\* only the plan type (the last check) is missing, and the run ended on it
C11_Witness ==
    /\ pc = "idle"
    /\ error = msgNeedPlan
    /\ planType = << >>
    /\ figmaFileKey # << >> /\ figmaNodeId # << >> /\ figmaApiToken # << >>
    /\ dbMappingFile # NullFile /\ computedFieldsFile # NullFile

----------------------------------------------------------------------------
(* C12: each descriptor's screen context is one of create, edit, delete,   *)
(* view and depends on the emitting leaf's own name only: the first of     *)
(* "create", "edit", "delete", "view" (in that precedence) its lower-cased *)
(* name contains, otherwise "view", the screen the traversal starts with;  *)
(* a leaf's override reaches no sibling's or descendant's descriptor.      *)

ScreenKeywords == <<kwCreate, kwEdit, kwDelete, kwView>>
ScreenNames == <<"create", "edit", "delete", "view">>

ExpectedScreen(name) ==
    LET hits == { k \in 1..4 : includes(toLowerCase(name), ScreenKeywords[k]) }
    IN  IF hits = { }
        THEN "view"
        ELSE ScreenNames[CHOOSE k \in hits : \A h \in hits : k <= h]

C12_ScreenFromOwnName ==
    phase = "done" =>
        \A i \in 1..Len(fields) :
            /\ fields[i].screen_name \in {"create", "edit", "delete", "view"}
            /\ fields[i].screen_name = ExpectedScreen(fields[i].field_name)

\* a leaf overridden to "edit" although "View" comes first in its name,
\* followed by a descriptor without keyword, emitted as "view"
C12_Witness ==
    /\ phase = "done"
    /\ \E i \in 1..Len(fields) : \E j \in (i + 1)..Len(fields) :
           /\ fields[i].field_name = nViewEdit
           /\ fields[i].screen_name = "edit"
           /\ fields[j].field_name = nEmail
           /\ fields[j].screen_name = "view"
    /\ document.type = "RECTANGLE"

----------------------------------------------------------------------------
(* C13: when several entries of a mapping table have names that are equal  *)
(* after case-folding, the call returns normally and every descriptor with *)
(* that name resolves to the value of the last such entry in input order.  *)

\* the index of the last entry of a table that folds to the name, 0 if none
LastMatch(table, name) ==
    LET hits == { k \in 1..Len(table) : foldsTo(table[k].field_name, name) }
    IN  IF hits = { } THEN 0 ELSE CHOOSE k \in hits : \A h \in hits : h <= k

C13_LastWriteWins ==
    returned.called =>
        /\ Len(returned.consolidated) = Len(call.figmaFields)
        /\ \A i \in 1..Len(call.figmaFields) :
               LET c == LastMatch(call.dbMappings, call.figmaFields[i].field_name)
                   f == LastMatch(call.computedFields, call.figmaFields[i].field_name)
               IN  /\ c # 0 => returned.consolidated[i].db_mapping
                                   = call.dbMappings[c].db_column
                   /\ f # 0 => returned.consolidated[i].formula
                                   = call.computedFields[f].formula

\* both tables hold two entries that fold to the descriptor's name with
\* different values, and the descriptor carries the second of each
C13_Witness ==
    /\ returned.called
    /\ Len(call.dbMappings) = 2
    /\ Len(call.computedFields) = 2
    /\ foldsTo(call.dbMappings[1].field_name, call.dbMappings[2].field_name)
    /\ call.dbMappings[1].db_column # call.dbMappings[2].db_column
    /\ foldsTo(call.computedFields[1].field_name, call.computedFields[2].field_name)
    /\ call.computedFields[1].formula # call.computedFields[2].formula
    /\ \E i \in 1..Len(call.figmaFields) :
           /\ returned.consolidated[i].db_mapping = call.dbMappings[2].db_column
           /\ returned.consolidated[i].formula = call.computedFields[2].formula

----------------------------------------------------------------------------
(* C14: a DB mapping file with extension pdf, doc or docx parses to no     *)
(* rows without failing, and a run that uses it and completes stores one   *)
(* record per descriptor, each with an empty db_mapping and its            *)
(* missing_db_mapping issue; a file whose extension is none of xlsx, xls,  *)
(* csv, pdf, doc, docx ends the run with the unsupported-format error and  *)
(* the run writes no consolidated data.                                    *)

SupportedExtensions == {extXlsx, extXls, extCsv, extPdf, extDoc, extDocx}
PlaceholderExtensions == {extPdf, extDoc, extDocx}

\* the run ends on the unsupported-format error of the file and writes no data
AbortsUnsupported(file) ==
    /\ pc' = "idle"
    /\ error' = <<"Unsupported file type: ", fileExtension(file)>>
    /\ consolidatedData' = consolidatedData

C14_SoftNoOpVersusHardError ==
    [][/\ (/\ pc = "parseDbMappingFile"
           /\ fileExtension(run.dbMappingFile) \in PlaceholderExtensions
           /\ fileExtension(run.computedFieldsFile) \in SupportedExtensions
           /\ DbMappingFileParsed)
          => /\ pc' = "parseComputedFieldsFile"
             /\ run'.dbMappings = << >>
             /\ error' = NoError
       /\ (/\ pc = "parseComputedFieldsFile"
           /\ fileExtension(run.dbMappingFile) \in PlaceholderExtensions
           /\ ComputedFieldsFileParsed)
          => /\ pc' = "idle"
             /\ error' = NoError
             /\ Len(consolidatedData') = Len(run.figmaFields)
             /\ Len(validationErrors') = Len(run.figmaFields)
             /\ \A i \in 1..Len(run.figmaFields) :
                    /\ consolidatedData'[i].field_name = run.figmaFields[i].field_name
                    /\ consolidatedData'[i].db_mapping = << >>
                    /\ validationErrors'[i].error_type = "missing_db_mapping"
                    /\ validationErrors'[i].field_name = run.figmaFields[i].field_name
       /\ (/\ pc = "extractFieldsFromFigma"
           /\ fileExtension(run.dbMappingFile) \notin SupportedExtensions
           /\ FigmaResponds)
          => AbortsUnsupported(run.dbMappingFile)
       /\ (/\ pc = "parseDbMappingFile"
           /\ fileExtension(run.computedFieldsFile) \notin SupportedExtensions
           /\ DbMappingFileParsed)
          => AbortsUnsupported(run.computedFieldsFile)
      ]_vars

\* a finished run on the PDF mapping file: the "Email" descriptor, which the
\* file's rows would map, is stored unmapped with its issue
C14_Witness ==
    /\ pc = "idle"
    /\ error = NoError
    /\ dbMappingFile = dbPdf
    /\ Len(consolidatedData) = 4
    /\ consolidatedData[1].field_name = nEmail
    /\ consolidatedData[1].db_mapping = << >>
    /\ Len(validationErrors) = 4


-----------------------------------------------------------------------------
\* the issues a consolidateData call returns together with these records:
\* one missing_db_mapping issue, in record order, per record whose
\* db_mapping is '' (the missing_formula test of line 43 cannot succeed
\* after line 32)
RECURSIVE IssuesFor(_)
IssuesFor(records) ==
    IF records = << >> THEN << >>
    ELSE LET rest == IssuesFor(Tail(records))
             head == Head(records)
         IN  IF head.db_mapping = << >>
             THEN <<[field_name |-> head.field_name,
                     error_type |-> "missing_db_mapping",
                     message    |-> msgFieldOpen \o head.field_name \o msgNoDbMapping]>>
                  \o rest
             ELSE rest

\* IssuesFor is what consolidateData returns with its records
IssuesForIsWhatConsolidateReturns ==
    returned.called => returned.errors = IssuesFor(returned.consolidated)

(* C15: whenever no run is in progress, the validation issues on display   *)
(* are exactly the issues returned by the consolidateData call that        *)
(* produced the consolidated records on display (both empty if there was   *)
(* none): records of one run never appear with the issues, or the cleared  *)
(* issues, of another run.                                                 *)
C15_IssuesMatchDisplayedRecords ==
    (pc = "idle" /\ ~loading) => validationErrors = IssuesFor(consolidatedData)

====
